---- MODULE Spec2Model ----
(***************************************************************************)
(* A model of jnc-downloader: the currency purchase calls of JNClient, the *)
(* download loops (JNCUtils.process_library and the script's loop), the    *)
(* reconciliation helpers (get_unowned_books, unfollow_completed_series)   *)
(* and the acquisition loop JNCUtils.handle_new_books.                     *)
(*                                                                         *)
(* Python exceptions are modelled as a name ("none" when the call          *)
(* returned); a dict is a function whose DOMAIN is its key set; None is    *)
(* the value NoneT.                                                        *)
(***************************************************************************)
EXTENDS Integers, Sequences, FiniteSets, TLC

VARIABLES
    \* ---- JNCUserData and the purchase calls
    coins,              \* user_data.coins (jnc_api_tools.py)
    premium_credits,    \* user_data.premium_credits (jnc_api.py)
    netCalls,           \* number of HTTP requests issued so far
    opCount,            \* number of purchase calls made so far
    lastCall,           \* what the last purchase call was given and did
    \* ---- the download loops
    variant,            \* "process_library" (jnc_api_tools.py) or "script" (jnc.py)
    library,            \* the owned books, in iteration order; a book's id is its index
    include_updated,    \* process_library's flag
    downloaded_book_dates, \* process_library's ledger dict: id -> timestamp
    ledgerFile,         \* script: the rows of the ledger file: id -> title
    downloaded_books,   \* script: the dict the run builds and saves: id -> title
    now,                \* the time captured when the run started
    run,                \* number of runs started
    dl_pc,              \* position of the download loop
    dl_idx,             \* index of the current book
    dl_exc,             \* exception that ended the run ("none" otherwise)
    fetched,            \* ids whose content was requested in the current run
    failed,             \* ids whose content request failed in the current run
    written,            \* ids whose file write has completed
    ledgerSets,         \* ids the runs marked as downloaded in the ledger
    runStartLedger,     \* the ledger as it was when each run started, by run number
    \* ---- reconciliation
    owned,              \* the keys of the library dict: the ids of the owned books
    preorders,          \* the owned books with is_preorder set
    catalogue,          \* the service's series: slug -> [slug, tags, volumes]
    series_follow_states, \* the follow ledger: slug -> bool
    series_info,        \* the fetched series details, in fetch order
    downloaded_book_ids, \* the ids in the download ledger
    unowned,            \* the result of get_unowned_books
    unfollowed,         \* the slugs unfollow_completed_series set to False
    r_pc,               \* position of the reconciliation
    \* ---- handle_new_books
    h_variant,          \* "coins" (jnc_api_tools.py) or "credits" (jnc_api.py)
    new_books,          \* the books to order; a book's id is its index
    opts,               \* the flags buy_coins, no_confirm_order, no_confirm_coins
    h_pc,               \* position of the loop
    h_idx,              \* index of the current book
    h_exc,              \* exception that left handle_new_books ("none" otherwise)
    ordered_books,      \* the keys of the result dict
    redeemed,           \* ids whose redeem request the service accepted, in order
    purchases,          \* amounts of the purchases the service accepted, in order
    balance0,           \* the balance when handle_new_books was called
    balAfterRedeem,     \* the balance after the last accepted redeem
    hist,               \* what happened in the current iteration
    \* ---- the top level of the script jnc.py
    m_pc,               \* position in the script
    m_exit,             \* the status passed to sys.exit, NoneT while running
    m_login,            \* how the login ended: "none", "ok" or the exception
    m_flags,            \* --order, --credits and the no-confirm flag for series
    m_files,            \* the ledger files that exist: "ledger", "series"
    m_created,          \* the files this run created or opened for writing
    m_follow_file,      \* the follow ledger on disk: slug -> followed
    m_owned_series,     \* the series slugs of the owned books
    m_decided,          \* the slugs this run recorded a follow decision for
    m_calls,            \* the kinds of request this run has sent
    \* ---- loading the download ledger
    l_rows,             \* the rows of the csv file, each <<book id, slug>>
    l_info,             \* book id -> publish_date and purchase_date of the item
    l_ids,              \* the result of read_downloaded_books_file
    l_dates,            \* the download ledger: book id -> timestamp
    l_pc,               \* position of the load
    \* ---- get_new_series
    g_library,          \* the series_slug of the library's books, in dict order
    g_known,            \* known_series: the keys of the follow ledger
    g_result,           \* the list result
    g_idx,              \* index of the current book
    g_pc,               \* position of the loop
    \* ---- JNCCoinOptions.nearest_pack
    p_packs,            \* self.packs: records with coins and currentCentsCost
    p_amount,           \* the amount asked for
    p_result,           \* the pair returned, as a record
    p_idx,              \* index of the current pack
    p_pc,               \* position of the loop
    \* ---- the steps of a run that tell preorders from available books
    k_clock,            \* the wall clock
    k_items,            \* book id -> is_preorder and publish_date
    k_now,              \* step -> the value of "now" it read, NoneT if none
    k_class,            \* step -> book id -> "preorder" or "available"
    k_done,             \* the steps that have run
    \* ---- the script's buy_credits
    c_initial,          \* the argument credits_to_buy of the call
    c_no_confirm,       \* the argument no_confirm
    credits_to_buy,     \* the local variable of the loop
    c_batches,          \* the amounts of the purchases made, in order
    c_declined,         \* the user declined a batch
    c_pc                \* position: "idle", "loop", "done" or "raised"

buyVars == <<coins, premium_credits, netCalls, opCount, lastCall>>

dlVars == <<variant, library, include_updated, downloaded_book_dates, ledgerFile,
            downloaded_books, now, run, dl_pc, dl_idx, dl_exc, fetched, failed,
            written, ledgerSets, runStartLedger>>

reconVars == <<owned, preorders, catalogue, series_follow_states, series_info,
               downloaded_book_ids, unowned, unfollowed, r_pc>>

orderVars == <<h_variant, new_books, opts, h_pc, h_idx, h_exc, ordered_books,
               redeemed, purchases, balance0, balAfterRedeem, hist>>

mainVars == <<m_pc, m_exit, m_login, m_flags, m_files, m_created, m_follow_file,
              m_owned_series, m_decided, m_calls>>

loadVars == <<l_rows, l_info, l_ids, l_dates, l_pc>>

seriesVars == <<g_library, g_known, g_result, g_idx, g_pc>>

packVars == <<p_packs, p_amount, p_result, p_idx, p_pc>>

classVars == <<k_clock, k_items, k_now, k_class, k_done>>

creditVars == <<c_initial, c_no_confirm, credits_to_buy, c_batches, c_declined, c_pc>>

vars == <<buyVars, dlVars, reconVars, orderVars, mainVars, loadVars, seriesVars,
          packVars, classVars, creditVars>>

\* what the actions of one part leave alone
notBuy == <<dlVars, reconVars, orderVars, mainVars, loadVars, seriesVars,
    packVars, classVars, creditVars>>
notDl == <<buyVars, reconVars, orderVars, mainVars, loadVars, seriesVars,
    packVars, classVars, creditVars>>
notRecon == <<buyVars, dlVars, orderVars, mainVars, loadVars, seriesVars,
    packVars, classVars, creditVars>>
notOrder == <<opCount, lastCall, dlVars, reconVars, mainVars, loadVars, seriesVars,
    packVars, classVars, creditVars>>
notMain == <<buyVars, dlVars, reconVars, orderVars, loadVars, seriesVars,
    packVars, classVars, creditVars>>
notSeries == <<buyVars, dlVars, reconVars, orderVars, mainVars, loadVars,
    packVars, classVars, creditVars>>
notPack == <<buyVars, dlVars, reconVars, orderVars, mainVars, loadVars, seriesVars,
    classVars, creditVars>>
notClass == <<buyVars, dlVars, reconVars, orderVars, mainVars, loadVars, seriesVars,
    packVars, creditVars>>
notCredit == <<buyVars, dlVars, reconVars, orderVars, mainVars, loadVars, seriesVars,
    packVars, classVars>>
notLoad == <<buyVars, dlVars, reconVars, orderVars, mainVars, seriesVars,
    packVars, classVars, creditVars>>

\* Python's None, where the other values are numbers
NoneT == 0
\* the empty dict
EmptyDict == [x \in {} |-> 0]

(***************************************************************************)
(* Bounds of the model.                                                    *)
(***************************************************************************)
\* purchase calls made in one behaviour of SpecBuy
MaxOps == 3
\* timestamps are 1 .. MaxTime
MaxTime == 2
\* download runs made one after the other on the same library
MaxRuns == 2
\* the service's volumes are 1 .. NItems
NItems == 2
\* books handed to handle_new_books
NNewBooks == 2
\* books in the library handed to get_new_series
MaxLibrary == 3
\* packs in a pack table
MaxPacks == 3
\* the script's buy_credits is called with -1 .. MaxCreditsToBuy
MaxCreditsToBuy == 21
\* coin counts of packs are 1 .. MaxPackCoins, amounts 0 .. MaxPackCoins + 1
MaxPackCoins == 3

(***************************************************************************)
(* Program constants.                                                      *)
(***************************************************************************)
\* jnc_api_tools.py: "if 500 > amount"
MinCoins == 500
\* jnc_api.py: "if 0 >= amount > 10" and its message "less than 1 or more than 10"
MinCredits == 1
MaxCredits == 10
\* jnc.py buy_credits: the largest batch of one purchase
BatchLimit == 10

(***************************************************************************)
(* JNClient.buy_coins (jnc_api_tools.py).  resp is the answer of the       *)
(* purchase endpoint: "ok", "http_error" (status >= 300) or "not_ok"       *)
(* (status 200 with ok == False).  The result gives the exception raised,  *)
(* the balance afterwards and the number of HTTP requests issued (the      *)
(* payment-method GET and the purchase POST).                              *)
(***************************************************************************)
PurchaseResponses == {"ok", "http_error", "not_ok"}

buy_coins(balance, amount, resp) ==
    IF MinCoins > amount
    THEN [exc |-> "ArgumentError", balance |-> balance, net |-> 0]
    ELSE IF resp = "http_error"
    THEN [exc |-> "JNCApiError", balance |-> balance, net |-> 2]
    ELSE IF resp = "not_ok"
    THEN [exc |-> "JNCApiError", balance |-> balance, net |-> 2]
    ELSE [exc |-> "none", balance |-> balance + amount, net |-> 2]

(***************************************************************************)
(* JNClient.buy_credits (jnc_api.py).  The guard is the chained comparison *)
(* 0 >= amount > 10, which Python evaluates as (0 >= amount) and           *)
(* (amount > 10).                                                          *)
(***************************************************************************)
buy_credits(balance, amount, resp) ==
    IF (0 >= amount) /\ (amount > MaxCredits)
    THEN [exc |-> "ArgumentError", balance |-> balance, net |-> 0]
    ELSE IF resp # "ok"
    THEN [exc |-> "JNCApiError", balance |-> balance, net |-> 1]
    ELSE [exc |-> "none", balance |-> balance + amount, net |-> 1]

\* the maximum purchasable coin amount the service announces
\* (JNCCoinOptions.purchaseMaximumCoins)
purchaseMaximumCoins == MinCoins + 1

\* amounts a caller may pass
CoinAmounts == {0, MinCoins - 1, MinCoins, purchaseMaximumCoins, purchaseMaximumCoins + 1}
CreditAmounts == (MinCredits - 2) .. (MaxCredits + 1)


(***************************************************************************)
(* The download loops.                                                     *)
(***************************************************************************)
Times == 1 .. MaxTime
\* the ids of the books in the library of a download run: the loops treat
\* each book on its own, two books give an item before and an item after
BookIds == {1, 2}
\* JNCBook.download_link is None or a URL
NoLink == "None"

\* the fields of a JNCBook that the download loops read
Books == [is_preorder : BOOLEAN, publish_date : Times,
          download_link : {NoLink, "url"}, updated_date : {NoneT} \cup Times]
\* the fields of a library entry that the script reads
ScriptBooks == {b \in Books : b.is_preorder = FALSE /\ b.download_link = "url"
                              /\ b.updated_date = NoneT}

\* d[k] = v
Put(d, k, v) == [x \in DOMAIN d \cup {k} |-> IF x = k THEN v ELSE d[x]]

\* process_library, first condition: the book is passed over
skips(book, book_id, dates, incl, t) ==
    \/ book.is_preorder = TRUE
    \/ book.publish_date > t
    \/ book.download_link = NoLink
    \/ (book_id \in DOMAIN dates /\ ~incl)

\* wants without the comparison of the timestamps: with include_updated every
\* book of the ledger is fetched again
wants_any_update(book, book_id, dates, incl) ==
    \/ book_id \notin DOMAIN dates
    \/ incl

\* wants with "<=" in place of "<": an equal timestamp is fetched again
wants_le(book, book_id, dates, incl) ==
    \/ book_id \notin DOMAIN dates
    \/ /\ incl
       /\ book.updated_date # NoneT
       /\ dates[book_id] <= book.updated_date

\* process_library, second condition: the book is downloaded
wants(book, book_id, dates, incl) ==
    \/ book_id \notin DOMAIN dates
    \/ /\ incl
       /\ book.updated_date # NoneT
       /\ dates[book_id] < book.updated_date

\* the script's loop: the book is passed over (already in the ledger file, or
\* not yet released)
script_skips(book, book_id, ids, t) ==
    \/ book_id \in ids
    \/ book.publish_date > t

\* an except clause that ends the run instead of going on
except_ends_run(idx) == [dl_pc |-> "raised", dl_idx |-> idx]

\* process_library's "except JNCApiError as err: print(err)" and the script's:
\* the loop goes on with the next book
except_JNCApiError(idx) == [dl_pc |-> "loop", dl_idx |-> idx + 1]

IdleDl ==
    /\ variant = "none"
    /\ library = <<>>
    /\ include_updated = FALSE
    /\ downloaded_book_dates = EmptyDict
    /\ ledgerFile = EmptyDict
    /\ downloaded_books = EmptyDict
    /\ now = NoneT
    /\ run = 0
    /\ dl_pc = "idle"
    /\ dl_idx = 0
    /\ dl_exc = "none"
    /\ fetched = {}
    /\ failed = {}
    /\ written = {}
    /\ ledgerSets = {}
    /\ runStartLedger = <<>>

InitProcessLibrary ==
    /\ variant = "process_library"
    /\ library \in [BookIds -> Books]
    /\ include_updated \in BOOLEAN
    /\ downloaded_book_dates \in UNION {[D -> Times] : D \in SUBSET BookIds}
    /\ ledgerFile = EmptyDict
    /\ downloaded_books = EmptyDict

\* the ledger file may hold the id 0 of a book that is no longer in the library
InitScript ==
    /\ variant = "script"
    /\ library \in [BookIds -> ScriptBooks]
    /\ include_updated = FALSE
    /\ downloaded_book_dates = EmptyDict
    /\ ledgerFile \in {[i \in D |-> i] : D \in SUBSET (BookIds \cup {0})}
    /\ downloaded_books = EmptyDict

InitDownload ==
    /\ InitProcessLibrary \/ InitScript
    /\ now = NoneT
    /\ run = 0
    /\ dl_pc = "idle"
    /\ dl_idx = 0
    /\ dl_exc = "none"
    /\ fetched = {}
    /\ failed = {}
    /\ written = {}
    /\ ledgerSets = {}
    /\ runStartLedger = <<>>

\* the part of a run's start that both loops share: the clock is read once
StartRun ==
    /\ dl_pc \in {"idle", "done"}
    /\ run < MaxRuns
    /\ run' = run + 1
    /\ now' \in {t \in Times : t >= now}
    /\ dl_pc' = "loop"
    /\ dl_idx' = 1
    /\ fetched' = {}
    /\ failed' = {}
    /\ UNCHANGED <<notDl, variant, library, include_updated, dl_exc, written, ledgerSets>>

\* ---- JNCUtils.process_library
PL_Start ==
    /\ variant = "process_library"
    /\ StartRun
    /\ runStartLedger' = Append(runStartLedger, downloaded_book_dates)
    /\ UNCHANGED <<downloaded_book_dates, ledgerFile, downloaded_books>>

\* the loop head and the two conditions
PL_Loop ==
    /\ variant = "process_library"
    /\ dl_pc = "loop"
    /\ IF dl_idx > Len(library)
       THEN /\ dl_pc' = "done"
            /\ dl_idx' = dl_idx
       ELSE LET book == library[dl_idx] IN
            IF skips(book, dl_idx, downloaded_book_dates, include_updated, now)
            THEN /\ dl_pc' = "loop"
                 /\ dl_idx' = dl_idx + 1
            ELSE IF wants(book, dl_idx, downloaded_book_dates, include_updated)
            THEN /\ dl_pc' = "download"
                 /\ dl_idx' = dl_idx
            ELSE /\ dl_pc' = "loop"
                 /\ dl_idx' = dl_idx + 1
    /\ UNCHANGED <<notDl, variant, library, include_updated, downloaded_book_dates, ledgerFile,
                   downloaded_books, now, run, dl_exc, fetched, failed, written,
                   ledgerSets, runStartLedger>>

\* JNCUtils.download_book up to the response, and process_library's except clause
PL_Download ==
    /\ variant = "process_library"
    /\ dl_pc = "download"
    /\ IF library[dl_idx].download_link = NoLink
       THEN /\ dl_pc' = "raised"
            /\ dl_exc' = "RuntimeError"
            /\ UNCHANGED <<dl_idx, fetched, failed>>
       ELSE \E status \in {200, 404} :
            /\ fetched' = fetched \cup {dl_idx}
            /\ IF status # 200
               THEN /\ failed' = failed \cup {dl_idx}
                    /\ dl_pc' = except_JNCApiError(dl_idx).dl_pc
                    /\ dl_idx' = except_JNCApiError(dl_idx).dl_idx
               ELSE /\ failed' = failed
                    /\ dl_pc' = "write"
                    /\ dl_idx' = dl_idx
            /\ dl_exc' = dl_exc
    /\ UNCHANGED <<notDl, variant, library, include_updated, downloaded_book_dates, ledgerFile,
                   downloaded_books, now, run, written, ledgerSets, runStartLedger>>

\* JNCUtils.download_book: the file is written; a failing write raises OSError,
\* which nothing catches
PL_Write ==
    /\ variant = "process_library"
    /\ dl_pc = "write"
    /\ \E ok \in BOOLEAN :
          IF ok
          THEN /\ written' = written \cup {dl_idx}
               /\ dl_pc' = "mark"
               /\ dl_exc' = dl_exc
          ELSE /\ written' = written
               /\ dl_pc' = "raised"
               /\ dl_exc' = "OSError"
    /\ UNCHANGED <<notDl, variant, library, include_updated, downloaded_book_dates, ledgerFile,
                   downloaded_books, now, run, dl_idx, fetched, failed, ledgerSets,
                   runStartLedger>>

\* downloaded_book_dates[book_id] = now
PL_Mark ==
    /\ variant = "process_library"
    /\ dl_pc = "mark"
    /\ downloaded_book_dates' = Put(downloaded_book_dates, dl_idx, now)
    /\ ledgerSets' = ledgerSets \cup {dl_idx}
    /\ dl_pc' = "loop"
    /\ dl_idx' = dl_idx + 1
    /\ UNCHANGED <<notDl, variant, library, include_updated, ledgerFile, downloaded_books, now,
                   run, dl_exc, fetched, failed, written, runStartLedger>>

\* ---- the script's download section (jnc.py)
\* the ledger file is read into downloaded_book_ids, downloaded_books starts empty
S_Start ==
    /\ variant = "script"
    /\ StartRun
    /\ runStartLedger' = Append(runStartLedger, ledgerFile)
    /\ downloaded_books' = EmptyDict
    /\ UNCHANGED <<downloaded_book_dates, ledgerFile>>

\* the loop head; after the last book the ledger file is rewritten from
\* downloaded_books
S_Loop ==
    /\ variant = "script"
    /\ dl_pc = "loop"
    /\ IF dl_idx > Len(library)
       THEN /\ ledgerFile' = downloaded_books
            /\ dl_pc' = "done"
            /\ UNCHANGED <<dl_idx, downloaded_books>>
       ELSE /\ ledgerFile' = ledgerFile
            /\ IF dl_idx \in DOMAIN ledgerFile
               THEN /\ downloaded_books' = Put(downloaded_books, dl_idx, dl_idx)
                    /\ dl_pc' = "loop"
                    /\ dl_idx' = dl_idx + 1
               ELSE IF script_skips(library[dl_idx], dl_idx, DOMAIN ledgerFile, now)
               THEN /\ downloaded_books' = downloaded_books
                    /\ dl_pc' = "loop"
                    /\ dl_idx' = dl_idx + 1
               ELSE /\ downloaded_books' = downloaded_books
                    /\ dl_pc' = "download"
                    /\ dl_idx' = dl_idx
    /\ UNCHANGED <<notDl, variant, library, include_updated, downloaded_book_dates, now, run,
                   dl_exc, fetched, failed, written, ledgerSets, runStartLedger>>

\* download_book: the content is requested; JNCApiError is caught and printed
S_Download ==
    /\ variant = "script"
    /\ dl_pc = "download"
    /\ fetched' = fetched \cup {dl_idx}
    /\ \E ok \in BOOLEAN :
          IF ok
          THEN /\ failed' = failed
               /\ dl_pc' = "mark"
               /\ dl_idx' = dl_idx
          ELSE /\ failed' = failed \cup {dl_idx}
               /\ dl_pc' = except_JNCApiError(dl_idx).dl_pc
               /\ dl_idx' = except_JNCApiError(dl_idx).dl_idx
    /\ UNCHANGED <<notDl, variant, library, include_updated, downloaded_book_dates, ledgerFile,
                   downloaded_books, now, run, dl_exc, written, ledgerSets,
                   runStartLedger>>

\* download_book: downloaded_books[book_id] = book_title
S_Mark ==
    /\ variant = "script"
    /\ dl_pc = "mark"
    /\ downloaded_books' = Put(downloaded_books, dl_idx, dl_idx)
    /\ ledgerSets' = ledgerSets \cup {dl_idx}
    /\ dl_pc' = "write"
    /\ UNCHANGED <<notDl, variant, library, include_updated, downloaded_book_dates, ledgerFile,
                   now, run, dl_idx, dl_exc, fetched, failed, written, runStartLedger>>

\* download_book: the file is written; a failing write raises OSError, which
\* ends the script before the ledger file is saved
S_Write ==
    /\ variant = "script"
    /\ dl_pc = "write"
    /\ \E ok \in BOOLEAN :
          IF ok
          THEN /\ written' = written \cup {dl_idx}
               /\ dl_pc' = "loop"
               /\ dl_idx' = dl_idx + 1
               /\ dl_exc' = dl_exc
          ELSE /\ written' = written
               /\ dl_pc' = "raised"
               /\ dl_idx' = dl_idx
               /\ dl_exc' = "OSError"
    /\ UNCHANGED <<notDl, variant, library, include_updated, downloaded_book_dates, ledgerFile,
                   downloaded_books, now, run, fetched, failed, ledgerSets,
                   runStartLedger>>


(***************************************************************************)
(* Reconciliation: the series of the followed slugs are fetched, the       *)
(* unowned volumes are listed and completed series are unfollowed.         *)
(***************************************************************************)
Items == 1 .. NItems
\* the slugs the service knows, in the order of the follow ledger's keys
SeriesOrder == <<"s1", "s2">>
Series == {SeriesOrder[k] : k \in 1 .. Len(SeriesOrder)}
FullyTranslated == "fully translated"

\* the ids in S as an ascending sequence
RECURSIVE Ascending(_)
Ascending(S) ==
    IF S = {} THEN <<>>
    ELSE LET m == CHOOSE x \in S : \A y \in S : x <= y
         IN  <<m>> \o Ascending(S \ {m})

\* the elements of a sequence
Range(q) == {q[k] : k \in 1 .. Len(q)}

\* the script's loop over the follow ledger: the slugs whose state is True
followed_slugs(states) ==
    SelectSeq(SeriesOrder, LAMBDA s : s \in DOMAIN states /\ states[s] = TRUE)

\* JNClient.fetch_series: one JNCSeries per slug, in the order asked
fetch_series(series_slugs) ==
    [k \in 1 .. Len(series_slugs) |-> catalogue[series_slugs[k]]]

\* the inner loop of get_unowned_books over one series
RECURSIVE unowned_volumes(_, _)
unowned_volumes(lib, volumes) ==
    IF volumes = <<>> THEN <<>>
    ELSE (IF Head(volumes) \notin lib THEN <<Head(volumes)>> ELSE <<>>)
         \o unowned_volumes(lib, Tail(volumes))

\* get_unowned_books that keeps the owned volumes
RECURSIVE get_owned_books(_, _)
get_owned_books(lib, info) ==
    IF info = <<>> THEN <<>>
    ELSE SelectSeq(Head(info).volumes, LAMBDA v : v \in lib)
         \o get_owned_books(lib, Tail(info))

\* JNCUtils.get_unowned_books
RECURSIVE get_unowned_books(_, _)
get_unowned_books(lib, info) ==
    IF info = <<>> THEN <<>>
    ELSE unowned_volumes(lib, Head(info).volumes)
         \o get_unowned_books(lib, Tail(info))

\* unfollow_completed_series: the test made on one series
is_completed(serie, downloaded) ==
    /\ FullyTranslated \in serie.tags
    /\ \A book_id \in Range(serie.volumes) : book_id \in downloaded

\* JNCUtils.unfollow_completed_series (jnc_api_tools.py): the slugs set to False
completed_slugs(downloaded, info) ==
    {info[k].slug : k \in {j \in 1 .. Len(info) : is_completed(info[j], downloaded)}}

IdleRecon ==
    /\ owned = {}
    /\ preorders = {}
    /\ catalogue = EmptyDict
    /\ series_follow_states = EmptyDict
    /\ series_info = <<>>
    /\ downloaded_book_ids = {}
    /\ unowned = <<>>
    /\ unfollowed = {}
    /\ r_pc = "idle"

InitReconciliation ==
    /\ owned \in SUBSET Items
    /\ preorders \in SUBSET owned
    /\ \E seriesOf \in [Items -> Series], tagged \in SUBSET Series :
          catalogue = [s \in Series |->
                         [slug |-> s,
                          tags |-> IF s \in tagged THEN {FullyTranslated} ELSE {},
                          volumes |-> Ascending({i \in Items : seriesOf[i] = s})]]
    /\ series_follow_states \in UNION {[D -> BOOLEAN] : D \in SUBSET Series}
    /\ series_info = <<>>
    /\ downloaded_book_ids \in SUBSET Items
    /\ unowned = <<>>
    /\ unfollowed = {}
    /\ r_pc = "start"

\* the details of the followed series are fetched; a failing request raises
\* JNCApiError out of fetch_series
R_FetchSeries ==
    /\ r_pc = "start"
    /\ \E ok \in BOOLEAN :
          IF ok
          THEN /\ series_info' = fetch_series(followed_slugs(series_follow_states))
               /\ r_pc' = "loaded"
          ELSE /\ series_info' = series_info
               /\ r_pc' = "raised"
    /\ UNCHANGED <<notRecon, owned, preorders, catalogue, series_follow_states,
                   downloaded_book_ids, unowned, unfollowed>>

R_GetUnowned ==
    /\ r_pc = "loaded"
    /\ unowned' = get_unowned_books(owned, series_info)
    /\ r_pc' = "planned"
    /\ UNCHANGED <<notRecon, owned, preorders, catalogue, series_follow_states,
                   series_info, downloaded_book_ids, unfollowed>>

\* JNCUtils.unfollow_completed_series of jnc_api_tools.py, given the fetched
\* series (the function of the same name in jnc_api.py is an empty stub)
R_Unfollow ==
    /\ r_pc = "planned"
    /\ LET done == completed_slugs(downloaded_book_ids, series_info) IN
          /\ series_follow_states' =
                [s \in DOMAIN series_follow_states \cup done |->
                    IF s \in done THEN FALSE ELSE series_follow_states[s]]
          /\ unfollowed' = done
    /\ r_pc' = "done"
    /\ UNCHANGED <<notRecon, owned, preorders, catalogue, series_info,
                   downloaded_book_ids, unowned>>


(***************************************************************************)
(* JNCUtils.handle_new_books, one step per statement group of the loop     *)
(* body.  A raised exception that nothing in handle_new_books catches      *)
(* leaves the function: h_pc = "raised".                                   *)
(***************************************************************************)
\* prices in coins: below and at the purchase minimum, and above it
Prices == {1, MinCoins, MinCoins + 1}
\* the answers of the price endpoint (JNCBook.price)
PriceFetches == [ok : BOOLEAN, coins : Prices]
\* the answers of the redeem endpoint: accepted, already owned, another error
OrderResponses == {"204", "409", "500"}

\* JNCBook.price: the cached _price when it is above 0, else the price endpoint
price_of(book, pf) ==
    IF book.price > 0 THEN [exc |-> "none", coins |-> book.price]
    ELSE IF pf.ok THEN [exc |-> "none", coins |-> pf.coins]
    ELSE [exc |-> "JNCApiError", coins |-> 0]

\* JNClient.order_book that takes the 409 answer as a success without payment
order_book_409_ok(balance, price, resp) ==
    IF balance >= price
    THEN IF resp = "409" THEN [exc |-> "none", balance |-> balance]
         ELSE IF resp # "204" THEN [exc |-> "JNCApiError", balance |-> balance]
         ELSE [exc |-> "none", balance |-> balance - price]
    ELSE [exc |-> "NoCoinsError", balance |-> balance]

\* JNClient.order_book (jnc_api_tools.py)
order_book(balance, price, resp) ==
    IF balance >= price
    THEN IF resp = "409" THEN [exc |-> "JNCApiError", balance |-> balance]
         ELSE IF resp # "204" THEN [exc |-> "JNCApiError", balance |-> balance]
         ELSE [exc |-> "none", balance |-> balance - price]
    ELSE [exc |-> "NoCoinsError", balance |-> balance]

\* JNClient.order_book (jnc_api.py): one credit per book
order_book_credits(balance, resp) ==
    IF balance <= 0
    THEN [exc |-> "NoCreditsError", balance |-> balance]
    ELSE IF resp = "409" THEN [exc |-> "JNCApiError", balance |-> balance]
    ELSE IF resp # "204" THEN [exc |-> "JNCApiError", balance |-> balance]
    ELSE [exc |-> "none", balance |-> balance - 1]

\* a funds test that never stops the loop
not_enough_never(balance, price) == FALSE

\* handle_new_books: "if user_data.coins < book.price"
not_enough(balance, price) == balance < price

\* the funds test followed by "continue" instead of "break"
on_low_funds_skip(idx) == [h_pc |-> "loop", h_idx |-> idx + 1]

\* handle_new_books: "break", then "return ordered_books"
on_low_funds(idx) == [h_pc |-> "returned", h_idx |-> idx]

\* JNClient.fetch_owned_book_info that reports nothing
fetch_owned_book_info_quiet(status) == "none"

\* JNClient.fetch_owned_book_info: the exception it raises
fetch_owned_book_info(status) ==
    IF ~(status < 300) THEN "JNCApiError" ELSE "none"

\* the answers of the single-book endpoint
InfoStatuses == {200, 404}

\* handle_new_books (jnc_api.py): "if user_data.premium_credits == 0"
out_of_credits(balance) == balance = 0

\* a declined order that ends the loop
on_decline_break(idx) == [h_pc |-> "returned", h_idx |-> idx]

\* handle_new_books: "if not no_confirm_order and not user_confirm(...):
\* continue"
on_decline(idx) == [h_pc |-> "loop", h_idx |-> idx + 1]

\* the record of what happened: attempt, order and info describe the current
\* iteration, before is the balance at the start of its last purchase or
\* redeem step; declined and short are the books the user declined and
\* the books at which the balance was below the price after the purchase step
NewIter(h) ==
    [attempt |-> "none", order |-> "none", info |-> "none", before |-> 0,
     declined |-> h.declined, short |-> h.short]

NoHist ==
    [attempt |-> "none", order |-> "none", info |-> "none", before |-> 0,
     declined |-> {}, short |-> {}]

IdleOrder ==
    /\ h_variant = "none"
    /\ new_books = <<>>
    /\ opts = [buy_coins |-> FALSE, no_confirm_order |-> FALSE, no_confirm_coins |-> FALSE]
    /\ h_pc = "idle"
    /\ h_idx = 0
    /\ h_exc = "none"
    /\ ordered_books = {}
    /\ redeemed = <<>>
    /\ purchases = <<>>
    /\ balance0 = 0
    /\ balAfterRedeem = 0
    /\ hist = NoHist

InitHandleNewBooks ==
    /\ \/ /\ h_variant = "coins"
          /\ coins \in {0, 1, MinCoins}
          /\ premium_credits = 0
          /\ new_books \in [1 .. NNewBooks -> [price : {0} \cup Prices]]
          /\ opts \in [buy_coins : BOOLEAN, no_confirm_order : BOOLEAN,
                       no_confirm_coins : BOOLEAN]
          /\ balance0 = coins
       \/ /\ h_variant = "credits"
          /\ coins = 0
          /\ premium_credits \in 0 .. NNewBooks
          /\ new_books \in [1 .. NNewBooks -> [price : {1}]]
          /\ opts \in [buy_coins : BOOLEAN, no_confirm_order : {FALSE},
                       no_confirm_coins : {FALSE}]
          /\ balance0 = premium_credits
    /\ netCalls = 0
    /\ h_pc = "loop"
    /\ h_idx = 1
    /\ h_exc = "none"
    /\ ordered_books = {}
    /\ redeemed = <<>>
    /\ purchases = <<>>
    /\ balAfterRedeem = balance0
    /\ hist = NoHist

\* ---- jnc_api_tools.py
\* "for book in new_books", the confirmation of the order, and the return
H_Loop ==
    /\ h_variant = "coins"
    /\ h_pc = "loop"
    /\ IF h_idx > Len(new_books)
       THEN /\ h_pc' = "returned"
            /\ UNCHANGED <<h_idx, hist>>
       ELSE \E answer \in BOOLEAN :
            IF ~opts.no_confirm_order /\ ~answer
            THEN /\ h_pc' = on_decline(h_idx).h_pc
                 /\ h_idx' = on_decline(h_idx).h_idx
                 /\ hist' = [NewIter(hist) EXCEPT !.declined = @ \cup {h_idx}]
            ELSE /\ h_pc' = "buy"
                 /\ h_idx' = h_idx
                 /\ hist' = NewIter(hist)
    /\ UNCHANGED <<notOrder, coins, premium_credits, netCalls, h_variant, new_books,
                   opts, h_exc, ordered_books, redeemed, purchases, balance0,
                   balAfterRedeem>>

\* "if user_data.coins == 0 and buy_coins and (no_confirm_coins or
\* user_confirm(...)): JNClient.buy_coins(user_data, amount=book.price)"
H_Buy ==
    /\ h_variant = "coins"
    /\ h_pc = "buy"
    /\ \E pf \in PriceFetches, answer \in BOOLEAN, resp \in PurchaseResponses :
          LET book == new_books[h_idx]
              p == price_of(book, pf)
              cached == [new_books EXCEPT ![h_idx].price = p.coins]
          IN
          IF ~(coins = 0 /\ opts.buy_coins)
          THEN /\ hist' = [hist EXCEPT !.attempt = "not_tried"]
               /\ h_pc' = "check"
               /\ UNCHANGED <<coins, netCalls, new_books, h_exc, purchases>>
          ELSE IF p.exc # "none"
          THEN /\ h_pc' = "raised"
               /\ h_exc' = p.exc
               /\ UNCHANGED <<coins, netCalls, new_books, purchases, hist>>
          ELSE IF ~opts.no_confirm_coins /\ ~answer
          THEN /\ hist' = [hist EXCEPT !.attempt = "declined"]
               /\ h_pc' = "check"
               /\ new_books' = cached
               /\ UNCHANGED <<coins, netCalls, h_exc, purchases>>
          ELSE LET r == buy_coins(coins, p.coins, resp) IN
               /\ new_books' = cached
               /\ netCalls' = netCalls + r.net
               /\ coins' = r.balance
               /\ IF r.exc # "none"
                  THEN /\ h_pc' = "raised"
                       /\ h_exc' = r.exc
                       /\ purchases' = purchases
                       /\ hist' = [hist EXCEPT !.attempt = "failed",
                                     !.before = coins,
                                     !.short = IF r.balance < p.coins
                                               THEN @ \cup {h_idx} ELSE @]
                  ELSE /\ h_pc' = "check"
                       /\ h_exc' = h_exc
                       /\ purchases' = Append(purchases, p.coins)
                       /\ hist' = [hist EXCEPT !.attempt = "ok", !.before = coins]
    /\ UNCHANGED <<notOrder, premium_credits, h_variant, opts, h_idx, ordered_books,
                   redeemed, balance0, balAfterRedeem>>

\* "if user_data.coins < book.price: break"
H_Check ==
    /\ h_variant = "coins"
    /\ h_pc = "check"
    /\ \E pf \in PriceFetches :
          LET p == price_of(new_books[h_idx], pf) IN
          IF p.exc # "none"
          THEN /\ h_pc' = "raised"
               /\ h_exc' = p.exc
               /\ UNCHANGED <<new_books, h_idx, hist>>
          ELSE /\ new_books' = [new_books EXCEPT ![h_idx].price = p.coins]
               /\ h_exc' = h_exc
               /\ IF not_enough(coins, p.coins)
                  THEN /\ h_pc' = on_low_funds(h_idx).h_pc
                       /\ h_idx' = on_low_funds(h_idx).h_idx
                       /\ hist' = [hist EXCEPT !.short = @ \cup {h_idx}]
                  ELSE /\ h_pc' = "order"
                       /\ h_idx' = h_idx
                       /\ hist' = hist
    /\ UNCHANGED <<notOrder, coins, premium_credits, netCalls, h_variant, opts,
                   ordered_books, redeemed, purchases, balance0, balAfterRedeem>>

\* "JNClient.order_book(book=book, user_data=user_data)"
H_Order ==
    /\ h_variant = "coins"
    /\ h_pc = "order"
    /\ \E resp \in OrderResponses :
          LET price == new_books[h_idx].price
              r == order_book(coins, price, resp)
          IN
          /\ coins' = r.balance
          /\ netCalls' = IF coins >= price THEN netCalls + 1 ELSE netCalls
          /\ hist' = [hist EXCEPT !.before = coins,
                        !.order = IF coins < price THEN "no_funds" ELSE resp]
          /\ IF r.exc # "none"
             THEN /\ h_pc' = "raised"
                  /\ h_exc' = r.exc
                  /\ UNCHANGED <<redeemed, balAfterRedeem>>
             ELSE /\ h_pc' = "info"
                  /\ h_exc' = h_exc
                  /\ redeemed' = IF resp = "204" THEN Append(redeemed, h_idx) ELSE redeemed
                  /\ balAfterRedeem' = IF resp = "204" THEN r.balance ELSE balAfterRedeem
    /\ UNCHANGED <<notOrder, premium_credits, h_variant, new_books, opts, h_idx,
                   ordered_books, purchases, balance0>>

\* "ordered_books[book.book_id] = JNClient.fetch_owned_book_info(...)"
H_Info ==
    /\ h_variant = "coins"
    /\ h_pc = "info"
    /\ \E status \in InfoStatuses :
          /\ hist' = [hist EXCEPT !.info = IF status = 200 THEN "ok" ELSE "error"]
          /\ IF fetch_owned_book_info(status) = "none"
             THEN /\ ordered_books' = ordered_books \cup {h_idx}
                  /\ h_pc' = "loop"
                  /\ h_idx' = h_idx + 1
                  /\ h_exc' = h_exc
             ELSE /\ ordered_books' = ordered_books
                  /\ h_pc' = "raised"
                  /\ h_idx' = h_idx
                  /\ h_exc' = fetch_owned_book_info(status)
    /\ UNCHANGED <<notOrder, coins, premium_credits, netCalls, h_variant, new_books,
                   opts, redeemed, purchases, balance0, balAfterRedeem>>

\* ---- jnc_api.py: the same loop on premium credits; opts.buy_coins is the
\* parameter buy_credits, and every order is confirmed by the user
HC_Loop ==
    /\ h_variant = "credits"
    /\ h_pc = "loop"
    /\ IF h_idx > Len(new_books)
       THEN /\ h_pc' = "returned"
            /\ UNCHANGED <<h_idx, hist>>
       ELSE \E answer \in BOOLEAN :
            IF ~answer
            THEN /\ h_pc' = on_decline(h_idx).h_pc
                 /\ h_idx' = on_decline(h_idx).h_idx
                 /\ hist' = [NewIter(hist) EXCEPT !.declined = @ \cup {h_idx}]
            ELSE /\ h_pc' = "buy"
                 /\ h_idx' = h_idx
                 /\ hist' = NewIter(hist)
    /\ UNCHANGED <<notOrder, coins, premium_credits, netCalls, h_variant, new_books,
                   opts, h_exc, ordered_books, redeemed, purchases, balance0,
                   balAfterRedeem>>

\* "if user_data.premium_credits == 0 and buy_credits and user_confirm(...):
\* user_data.premium_credits += 1; JNClient.buy_credits(user_data, amount=1)"
HC_Buy ==
    /\ h_variant = "credits"
    /\ h_pc = "buy"
    /\ \E answer \in BOOLEAN, resp \in {"ok", "http_error"} :
          IF ~(premium_credits = 0 /\ opts.buy_coins)
          THEN /\ hist' = [hist EXCEPT !.attempt = "not_tried"]
               /\ h_pc' = "check"
               /\ UNCHANGED <<premium_credits, netCalls, h_exc, purchases>>
          ELSE IF ~answer
          THEN /\ hist' = [hist EXCEPT !.attempt = "declined"]
               /\ h_pc' = "check"
               /\ UNCHANGED <<premium_credits, netCalls, h_exc, purchases>>
          ELSE LET r == buy_credits(premium_credits + 1, 1, resp) IN
               /\ premium_credits' = r.balance
               /\ netCalls' = netCalls + r.net
               /\ IF r.exc # "none"
                  THEN /\ h_pc' = "raised"
                       /\ h_exc' = r.exc
                       /\ purchases' = purchases
                       /\ hist' = [hist EXCEPT !.attempt = "failed",
                                     !.before = premium_credits]
                  ELSE /\ h_pc' = "check"
                       /\ h_exc' = h_exc
                       /\ purchases' = Append(purchases, 1)
                       /\ hist' = [hist EXCEPT !.attempt = "ok",
                                     !.before = premium_credits]
    /\ UNCHANGED <<notOrder, coins, h_variant, new_books, opts, h_idx, ordered_books,
                   redeemed, balance0, balAfterRedeem>>

\* "if user_data.premium_credits == 0: break"
HC_Check ==
    /\ h_variant = "credits"
    /\ h_pc = "check"
    /\ IF out_of_credits(premium_credits)
       THEN /\ h_pc' = "returned"
            /\ hist' = [hist EXCEPT !.short = @ \cup {h_idx}]
       ELSE /\ h_pc' = "order"
            /\ hist' = hist
    /\ UNCHANGED <<notOrder, coins, premium_credits, netCalls, h_variant, new_books,
                   opts, h_idx, h_exc, ordered_books, redeemed, purchases, balance0,
                   balAfterRedeem>>

\* "JNClient.order_book(book=book, user_data=user_data)"
HC_Order ==
    /\ h_variant = "credits"
    /\ h_pc = "order"
    /\ \E resp \in OrderResponses :
          LET r == order_book_credits(premium_credits, resp) IN
          /\ premium_credits' = r.balance
          /\ netCalls' = IF premium_credits <= 0 THEN netCalls ELSE netCalls + 1
          /\ hist' = [hist EXCEPT !.before = premium_credits,
                        !.order = IF premium_credits <= 0 THEN "no_funds" ELSE resp]
          /\ IF r.exc # "none"
             THEN /\ h_pc' = "raised"
                  /\ h_exc' = r.exc
                  /\ UNCHANGED <<redeemed, balAfterRedeem>>
             ELSE /\ h_pc' = "info"
                  /\ h_exc' = h_exc
                  /\ redeemed' = Append(redeemed, h_idx)
                  /\ balAfterRedeem' = r.balance
    /\ UNCHANGED <<notOrder, coins, h_variant, new_books, opts, h_idx, ordered_books,
                   purchases, balance0>>

\* "ordered_books[book.book_id] = JNClient.fetch_owned_book_info(...)"
HC_Info ==
    /\ h_variant = "credits"
    /\ h_pc = "info"
    /\ \E status \in InfoStatuses :
          /\ hist' = [hist EXCEPT !.info = IF status = 200 THEN "ok" ELSE "error"]
          /\ IF fetch_owned_book_info(status) = "none"
             THEN /\ ordered_books' = ordered_books \cup {h_idx}
                  /\ h_pc' = "loop"
                  /\ h_idx' = h_idx + 1
                  /\ h_exc' = h_exc
             ELSE /\ ordered_books' = ordered_books
                  /\ h_pc' = "raised"
                  /\ h_idx' = h_idx
                  /\ h_exc' = fetch_owned_book_info(status)
    /\ UNCHANGED <<notOrder, coins, premium_credits, netCalls, h_variant, new_books,
                   opts, redeemed, purchases, balance0, balAfterRedeem>>

(***************************************************************************)
(* The top level of the script jnc.py: login, creation of the ledger       *)
(* files, follow decisions, orders, downloads.  The sections after the     *)
(* login are kept to the files they write and the kinds of request they    *)
(* send; the order and download loops are modelled step by step above.     *)
(***************************************************************************)
\* the answers of the login endpoint: a token, or a body with the key 'error'
LoginResponses == {"id", "error"}
\* the answers of the user endpoint
UserStatuses == {200, 401, 500}

\* JNClient.fetch_user_data: the exception it raises
fetch_user_data(status) ==
    IF status = 401 THEN "JNCUnauthorizedError"
    ELSE IF ~(status < 300) THEN "JNCApiError"
    ELSE "none"

\* JNClient.login: the exception it raises and the requests it sent
login(response, status) ==
    IF response = "error"
    THEN [exc |-> "JNCApiError", calls |-> {"login"}]
    ELSE [exc |-> fetch_user_data(status), calls |-> {"login", "user"}]

\* class JNCUnauthorizedError(JNCApiError): what "except JNCApiError" catches
is_JNCApiError(exc) == exc \in {"JNCApiError", "JNCUnauthorizedError"}

\* an except clause that prints the error and goes on
except_login_pass(exc) == [m_pc |-> "setup", m_exit |-> NoneT]

\* jnc.py: "except JNCApiError as err: print(err); sys.exit(1)"
except_login(exc) == [m_pc |-> "exited", m_exit |-> 1]

\* the dict d extended by the dict e on the slugs d does not have
Extend(d, e) ==
    [k \in DOMAIN d \cup DOMAIN e |-> IF k \in DOMAIN d THEN d[k] ELSE e[k]]

\* the follow ledgers over the slugs of Slugs
FollowStates(Slugs) == UNION {[D -> BOOLEAN] : D \in SUBSET Slugs}

AllSlugs == {"s1", "s2"}

IdleMain ==
    /\ m_pc = "idle"
    /\ m_exit = NoneT
    /\ m_login = "none"
    /\ m_flags = [order |-> FALSE, credits |-> FALSE, no_confirm_series |-> FALSE]
    /\ m_files = {}
    /\ m_created = {}
    /\ m_follow_file = EmptyDict
    /\ m_owned_series = {}
    /\ m_decided = {}
    /\ m_calls = {}

\* a missing follow ledger has no rows
InitScriptRun ==
    /\ m_pc = "login"
    /\ m_exit = NoneT
    /\ m_login = "none"
    /\ m_flags \in [order : BOOLEAN, credits : BOOLEAN, no_confirm_series : BOOLEAN]
    /\ m_files \in SUBSET {"ledger", "series"}
    /\ m_created = {}
    /\ m_follow_file \in FollowStates(AllSlugs)
    /\ ("series" \notin m_files => m_follow_file = EmptyDict)
    /\ m_owned_series = {}
    /\ m_decided = {}
    /\ m_calls = {}

\* "try: jnclient = JNClient(login_email, login_pw)
\*  except JNCApiError as err: print(err); sys.exit(1)"
M_Login ==
    /\ m_pc = "login"
    /\ \E response \in LoginResponses, status \in UserStatuses :
          LET r == login(response, status) IN
          /\ m_calls' = m_calls \cup r.calls
          /\ m_login' = IF r.exc = "none" THEN "ok" ELSE r.exc
          /\ IF is_JNCApiError(r.exc)
             THEN /\ m_pc' = except_login(r.exc).m_pc
                  /\ m_exit' = except_login(r.exc).m_exit
             ELSE /\ m_pc' = "setup"
                  /\ m_exit' = m_exit
    /\ UNCHANGED <<notMain, m_flags, m_files, m_created, m_follow_file, m_owned_series,
                   m_decided>>

\* the ledger files are created when they are missing, the owned books are
\* fetched and their series collected
M_Setup ==
    /\ m_pc = "setup"
    /\ m_created' = m_created \cup ({"ledger", "series"} \ m_files)
    /\ m_files' = {"ledger", "series"}
    /\ m_calls' = m_calls \cup {"owned"}
    /\ m_owned_series' \in SUBSET AllSlugs
    /\ m_pc' = "follow"
    /\ UNCHANGED <<notMain, m_exit, m_login, m_flags, m_follow_file, m_decided>>

\* every owned series that is not a key of the follow ledger gets a decision
\* (True without a question under no_confirm_series); the ledger is stored
M_Follow ==
    /\ m_pc = "follow"
    /\ LET new == m_owned_series \ DOMAIN m_follow_file IN
       \E answers \in [new -> BOOLEAN] :
          /\ m_follow_file' =
                Extend(m_follow_file,
                       [k \in new |-> m_flags.no_confirm_series \/ answers[k]])
          /\ m_decided' = m_decided \cup new
    /\ m_created' = m_created \cup {"series"}
    /\ m_pc' = "order"
    /\ UNCHANGED <<notMain, m_exit, m_login, m_flags, m_files, m_owned_series, m_calls>>

\* the series of the followed slugs are fetched; with --order the books to
\* order are redeemed, with --credits credits may be bought before
M_Order ==
    /\ m_pc = "order"
    /\ \E to_order \in BOOLEAN, bought \in BOOLEAN, ordered \in BOOLEAN :
          LET followed == {k \in DOMAIN m_follow_file : m_follow_file[k]}
              wanted == to_order /\ followed # {}
              purchase == wanted /\ m_flags.order /\ m_flags.credits /\ bought
              redeem == wanted /\ m_flags.order /\ ordered
          IN  m_calls' = m_calls
                            \cup (IF followed # {} THEN {"series"} ELSE {})
                            \cup (IF purchase THEN {"purchase"} ELSE {})
                            \cup (IF redeem THEN {"redeem"} ELSE {})
                            \cup (IF m_flags.order THEN {"owned"} ELSE {})
    /\ m_pc' = "download"
    /\ UNCHANGED <<notMain, m_exit, m_login, m_flags, m_files, m_created, m_follow_file,
                   m_owned_series, m_decided>>

\* the owned books that are neither in the ledger nor unreleased are
\* downloaded, then the ledger file is rewritten
M_Download ==
    /\ m_pc = "download"
    /\ \E any \in BOOLEAN :
          m_calls' = m_calls \cup (IF any THEN {"download"} ELSE {})
    /\ m_created' = m_created \cup {"ledger"}
    /\ m_pc' = "done"
    /\ UNCHANGED <<notMain, m_exit, m_login, m_flags, m_files, m_follow_file,
                   m_owned_series, m_decided>>

(***************************************************************************)
(* Loading the download ledger.  read_downloaded_books_file reads the      *)
(* first column of the csv rows; the inference of a timestamp for a legacy *)
(* two-column row is made by the caller, which is written from the         *)
(* specification.                                                          *)
(***************************************************************************)
\* the slug that stands in the second column of the row of book id
SlugOf(id) == 10 + id
\* the legacy files: up to two rows <<book id, slug>>
LegacyRows == {<<id, SlugOf(id)>> : id \in BookIds}
LegacyFiles == {<<>>} \cup {<<r>> : r \in LegacyRows}
                  \cup {<<r, q>> : r \in LegacyRows, q \in LegacyRows}

\* a reader that takes the second column
read_second_column(rows) == {rows[i][2] : i \in 1 .. Len(rows)}

\* JNCUtils.read_downloaded_books_file: "set([row[0] for row in csv.reader(f)])"
read_downloaded_books_file(rows) == {rows[i][1] : i \in 1 .. Len(rows)}

\* the timestamp inferred for a legacy entry: the later of the item's release
\* and purchase timestamps
inferred_date(item) ==
    IF item.purchase_date > item.publish_date THEN item.purchase_date
    ELSE item.publish_date

IdleLoad ==
    /\ l_rows = <<>>
    /\ l_info = EmptyDict
    /\ l_ids = {}
    /\ l_dates = EmptyDict
    /\ l_pc = "idle"

InitLoadLedger ==
    /\ l_rows \in LegacyFiles
    /\ l_info \in [BookIds -> [publish_date : Times, purchase_date : Times]]
    /\ l_ids = {}
    /\ l_dates = EmptyDict
    /\ l_pc = "read"

\* the file is read into the set of its book ids
L_Read ==
    /\ l_pc = "read"
    /\ l_ids' = read_downloaded_books_file(l_rows)
    /\ l_pc' = "infer"
    /\ UNCHANGED <<notLoad, l_rows, l_info, l_dates>>

\* every id read from a legacy row that the library knows gets its inferred
\* timestamp
L_Infer ==
    /\ l_pc = "infer"
    /\ l_dates' = [id \in l_ids \cap DOMAIN l_info |-> inferred_date(l_info[id])]
    /\ l_pc' = "loaded"
    /\ UNCHANGED <<notLoad, l_rows, l_info, l_ids>>

(***************************************************************************)
(* JNCUtils.get_new_series, one step per book of the library.              *)
(***************************************************************************)
\* the series_slug None of a book whose library item has no 'serie'
NoSlug == "None"
\* the values of JNCBook.series_slug
Slugs == AllSlugs \cup {"", NoSlug}

\* get_new_series: "book.series_slug != '' and book.series_slug not in
\* known_series and book.series_slug not in result"
is_new(slug, known_series, result) ==
    /\ slug # ""
    /\ slug \notin known_series
    /\ slug \notin Range(result)

IdleSeries ==
    /\ g_library = <<>>
    /\ g_known = {}
    /\ g_result = <<>>
    /\ g_idx = 0
    /\ g_pc = "idle"

InitGetNewSeries ==
    /\ g_library \in UNION {[1 .. n -> Slugs] : n \in 0 .. MaxLibrary}
    /\ g_known \in SUBSET AllSlugs
    /\ g_result = <<>>
    /\ g_idx = 1
    /\ g_pc = "loop"

\* "for book in library.values(): if ...: result.append(book.series_slug)"
G_Loop ==
    /\ g_pc = "loop"
    /\ g_idx <= Len(g_library)
    /\ g_result' = IF is_new(g_library[g_idx], g_known, g_result)
                   THEN Append(g_result, g_library[g_idx])
                   ELSE g_result
    /\ g_idx' = g_idx + 1
    /\ UNCHANGED <<notSeries, g_library, g_known, g_pc>>

\* "return result"
G_Return ==
    /\ g_pc = "loop"
    /\ g_idx > Len(g_library)
    /\ g_pc' = "done"
    /\ UNCHANGED <<notSeries, g_library, g_known, g_result, g_idx>>

(***************************************************************************)
(* JNCCoinOptions.nearest_pack, one step per pack of the table.            *)
(***************************************************************************)
\* the packs of the service's answer
Packs == [coins : 1 .. MaxPackCoins, currentCentsCost : {10, 20}]
\* the pack tables: JNCCoinOptions.__init__ reads packs[0], so a table has a
\* first pack; the order is the one of the service's answer
PackTables == UNION {[1 .. n -> Packs] : n \in 1 .. MaxPacks}

\* the test with >= in the place of >
exceeds_or_equals(pack, amount) == pack.coins >= amount

\* nearest_pack: "if pack['coins'] > amount"
exceeds(pack, amount) == pack.coins > amount

NoPack == [coins |-> 0, currentCentsCost |-> 0]

IdlePack ==
    /\ p_packs = <<>>
    /\ p_amount = 0
    /\ p_result = NoPack
    /\ p_idx = 0
    /\ p_pc = "idle"

InitNearestPack ==
    /\ p_packs \in PackTables
    /\ p_amount \in 0 .. (MaxPackCoins + 1)
    /\ p_result = NoPack
    /\ p_idx = 1
    /\ p_pc = "loop"

\* "for pack in self.packs: if pack['coins'] > amount: return ..."
P_Loop ==
    /\ p_pc = "loop"
    /\ p_idx <= Len(p_packs)
    /\ IF exceeds(p_packs[p_idx], p_amount)
       THEN /\ p_result' = p_packs[p_idx]
            /\ p_pc' = "done"
            /\ p_idx' = p_idx
       ELSE /\ p_result' = p_result
            /\ p_pc' = "loop"
            /\ p_idx' = p_idx + 1
    /\ UNCHANGED <<notPack, p_packs, p_amount>>

\* "return self.packs[-1]['coins'], self.packs[-1]['currentCentsCost']"
P_Last ==
    /\ p_pc = "loop"
    /\ p_idx > Len(p_packs)
    /\ p_result' = p_packs[Len(p_packs)]
    /\ p_pc' = "done"
    /\ UNCHANGED <<notPack, p_packs, p_amount, p_idx>>

(***************************************************************************)
(* The steps of a run of jnc_api_tools.py that tell a preorder from an     *)
(* available book: print_preorders, print_books and process_library.  The  *)
(* wall clock may advance between two steps.                               *)
(***************************************************************************)
Steps == {"print_preorders", "print_books", "process_library"}

\* print_preorders: "if book.is_preorder"
class_print_preorders(book) ==
    IF book.is_preorder THEN "preorder" ELSE "available"

\* print_books: "'Preorder:' if now < book.publish_date else 'Available:'"
class_print_books(book, t) ==
    IF t < book.publish_date THEN "preorder" ELSE "available"

\* process_library: "book.is_preorder is True or book.publish_date > now"
class_process_library(book, t) ==
    IF book.is_preorder = TRUE \/ book.publish_date > t THEN "preorder"
    ELSE "available"

IdleClass ==
    /\ k_clock = NoneT
    /\ k_items = EmptyDict
    /\ k_now = EmptyDict
    /\ k_class = EmptyDict
    /\ k_done = {}

InitClassify ==
    /\ k_clock \in Times
    /\ k_items \in [BookIds -> [is_preorder : BOOLEAN, publish_date : Times]]
    /\ k_now = EmptyDict
    /\ k_class = EmptyDict
    /\ k_done = {}

\* time passes between two steps
K_Tick ==
    /\ k_clock < MaxTime
    /\ k_clock' = k_clock + 1
    /\ UNCHANGED <<notClass, k_items, k_now, k_class, k_done>>

\* JNCUtils.print_preorders reads no clock
K_PrintPreorders ==
    /\ "print_preorders" \notin k_done
    /\ k_class' = Put(k_class, "print_preorders",
                      [id \in BookIds |-> class_print_preorders(k_items[id])])
    /\ k_done' = k_done \cup {"print_preorders"}
    /\ UNCHANGED <<notClass, k_clock, k_items, k_now>>

\* JNCUtils.print_books: "now = datetime.now(tz=timezone.utc)"
K_PrintBooks ==
    /\ "print_books" \notin k_done
    /\ k_now' = Put(k_now, "print_books", k_clock)
    /\ k_class' = Put(k_class, "print_books",
                      [id \in BookIds |-> class_print_books(k_items[id], k_clock)])
    /\ k_done' = k_done \cup {"print_books"}
    /\ UNCHANGED <<notClass, k_clock, k_items>>

\* JNCUtils.process_library: "now = datetime.now(tz=timezone.utc)..."
K_ProcessLibrary ==
    /\ "process_library" \notin k_done
    /\ k_now' = Put(k_now, "process_library", k_clock)
    /\ k_class' = Put(k_class, "process_library",
                      [id \in BookIds |-> class_process_library(k_items[id], k_clock)])
    /\ k_done' = k_done \cup {"process_library"}
    /\ UNCHANGED <<notClass, k_clock, k_items>>

(***************************************************************************)
(* buy_credits of the script jnc.py, one step per iteration of its loop.   *)
(***************************************************************************)
\* a batch that is never capped
purchase_batch_whole(n) == n

\* "purchase_batch = 10 if credits_to_buy > 10 else credits_to_buy"
purchase_batch(n) == IF n > BatchLimit THEN BatchLimit ELSE n

IdleCredit ==
    /\ c_initial = 0
    /\ c_no_confirm = FALSE
    /\ credits_to_buy = 0
    /\ c_batches = <<>>
    /\ c_declined = FALSE
    /\ c_pc = "idle"

\* the call buy_credits(credits_to_buy, no_confirm); the caller passes the
\* number of books to order minus the available credits, which may be
\* negative
InitBuyCredits ==
    /\ c_initial \in (0 - 1) .. MaxCreditsToBuy
    /\ c_no_confirm \in BOOLEAN
    /\ credits_to_buy = c_initial
    /\ c_batches = <<>>
    /\ c_declined = FALSE
    /\ c_pc = "loop"

\* one iteration of "while credits_to_buy > 0": the batch is confirmed and
\* bought, or declined ("break"); an exception of jnclient.buy_credits
\* leaves the function
C_Loop ==
    /\ c_pc = "loop"
    /\ credits_to_buy > 0
    /\ \E answer \in BOOLEAN, ok \in BOOLEAN :
          IF c_no_confirm \/ answer
          THEN IF ok
               THEN /\ c_batches' = Append(c_batches, purchase_batch(credits_to_buy))
                    /\ credits_to_buy' = credits_to_buy - purchase_batch(credits_to_buy)
                    /\ UNCHANGED <<c_declined, c_pc>>
               ELSE /\ c_pc' = "raised"
                    /\ UNCHANGED <<c_batches, credits_to_buy, c_declined>>
          ELSE /\ c_declined' = TRUE
               /\ c_pc' = "done"
               /\ UNCHANGED <<c_batches, credits_to_buy>>
    /\ UNCHANGED <<notCredit, c_initial, c_no_confirm>>

\* the loop condition fails and the function returns
C_Return ==
    /\ c_pc = "loop"
    /\ ~(credits_to_buy > 0)
    /\ c_pc' = "done"
    /\ UNCHANGED <<notCredit, c_initial, c_no_confirm, credits_to_buy, c_batches,
                   c_declined>>

IdleBuy ==
    /\ coins = 0
    /\ premium_credits = 0
    /\ netCalls = 0
    /\ opCount = 0
    /\ lastCall = [op |-> "none", amount |-> 0, exc |-> "none", before |-> 0, net |-> 0]

InitBuy ==
    /\ IdleCredit
    /\ IdleClass
    /\ IdlePack
    /\ IdleSeries
    /\ IdleLoad
    /\ IdleMain
    /\ IdleDl
    /\ IdleRecon
    /\ IdleOrder
    /\ coins \in {0, 1}
    /\ premium_credits \in {0, 1}
    /\ netCalls = 0
    /\ opCount = 0
    /\ lastCall = [op |-> "none", amount |-> 0, exc |-> "none", before |-> 0, net |-> 0]

BuyCoins ==
    /\ opCount < MaxOps
    /\ \E amount \in CoinAmounts, resp \in PurchaseResponses :
          LET r == buy_coins(coins, amount, resp) IN
          /\ coins' = r.balance
          /\ netCalls' = netCalls + r.net
          /\ lastCall' = [op |-> "buy_coins", amount |-> amount, exc |-> r.exc,
                          before |-> coins, net |-> r.net]
    /\ opCount' = opCount + 1
    /\ UNCHANGED <<premium_credits, notBuy>>

BuyCredits ==
    /\ opCount < MaxOps
    /\ \E amount \in CreditAmounts, resp \in {"ok", "http_error"} :
          LET r == buy_credits(premium_credits, amount, resp) IN
          /\ premium_credits' = r.balance
          /\ netCalls' = netCalls + r.net
          /\ lastCall' = [op |-> "buy_credits", amount |-> amount, exc |-> r.exc,
                          before |-> premium_credits, net |-> r.net]
    /\ opCount' = opCount + 1
    /\ UNCHANGED <<coins, notBuy>>

NextBuy == BuyCoins \/ BuyCredits

SpecBuy == InitBuy /\ [][NextBuy]_vars

\* C1: a purchase request (buy_coins / buy_credits) whose amount is below the
\* minimum or above the maximum purchasable amount is rejected with an
\* ArgumentError, issues no HTTP request and leaves the balance unchanged.
C1_OutOfRangeRejected ==
    LET outOfRange ==
            \/ /\ lastCall.op = "buy_coins"
               /\ (lastCall.amount < MinCoins \/ lastCall.amount > purchaseMaximumCoins)
            \/ /\ lastCall.op = "buy_credits"
               /\ (lastCall.amount < MinCredits \/ lastCall.amount > MaxCredits)
        balanceNow == IF lastCall.op = "buy_coins" THEN coins ELSE premium_credits
    IN  outOfRange =>
            /\ lastCall.exc = "ArgumentError"
            /\ lastCall.net = 0
            /\ balanceNow = lastCall.before

(***************************************************************************)
(* The download runs: process_library, or the script's loop, run up to     *)
(* MaxRuns times on the same library.                                      *)
(***************************************************************************)
InitDl ==
    /\ IdleCredit
    /\ IdleClass
    /\ IdlePack
    /\ IdleSeries
    /\ IdleLoad
    /\ IdleMain
    /\ IdleBuy
    /\ IdleRecon
    /\ IdleOrder
    /\ InitDownload

NextDl ==
    \/ PL_Start \/ PL_Loop \/ PL_Download \/ PL_Write \/ PL_Mark
    \/ S_Start \/ S_Loop \/ S_Download \/ S_Mark \/ S_Write

SpecDl == InitDl /\ [][NextDl]_vars

\* C2: an item is marked as downloaded in the ledger only after its file
\* write has completed: in every state, every id a run has set in the ledger
\* has its file written.
C2_LedgerOnlyAfterWrite == ledgerSets \subseteq written

\* the ledger a later run starts from
Ledger == IF variant = "script" THEN ledgerFile ELSE downloaded_book_dates
\* the ledger the current run writes to
RunLedger == IF variant = "script" THEN downloaded_books ELSE downloaded_book_dates
\* a ledger's entry for an id, NoneT when it has none
EntryOf(L, id) == IF id \in DOMAIN L THEN L[id] ELSE NoneT
\* every owned item is in ledger L
OwnedInLedger(L) == BookIds \subseteq DOMAIN L
\* the items whose content-update timestamp is strictly newer than their entry in L
Stale(L) ==
    {id \in BookIds \cap DOMAIN L :
        library[id].updated_date # NoneT /\ L[id] < library[id].updated_date}
\* the items a run that starts from ledger L at time t downloads
Eligible(id, L, t) ==
    IF variant = "script"
    THEN ~script_skips(library[id], id, DOMAIN L, t)
    ELSE /\ ~skips(library[id], id, L, include_updated, t)
         /\ wants(library[id], id, L, include_updated)

\* C5, as stated: when the ledger held every owned item before the first run,
\* the second run (and any later one) requests no content and leaves the
\* ledger as it found it.
C5_SecondRunFetchesNothing ==
    (run >= 2 /\ OwnedInLedger(runStartLedger[1]))
        => (fetched = {} /\ Ledger = runStartLedger[run])

\* C5, amended: the same, provided include_updated is false or no item's
\* content-update timestamp is strictly newer than its ledger timestamp when
\* the second run starts.
C5_SecondRunIdempotent ==
    (/\ run >= 2
     /\ OwnedInLedger(runStartLedger[1])
     /\ (~include_updated \/ Stale(runStartLedger[run]) = {}))
        => (fetched = {} /\ Ledger = runStartLedger[run])

\* a first run re-downloaded an updated item, the second run has finished
C5_Witness ==
    /\ variant = "process_library"
    /\ run = 2
    /\ dl_pc = "done"
    /\ include_updated
    /\ OwnedInLedger(runStartLedger[1])
    /\ Stale(runStartLedger[1]) # {}
    /\ Stale(runStartLedger[2]) = {}

\* C10: a failed content request does not interrupt the loop: the loop has
\* gone on past every failed item, whose ledger entry is what it was when the
\* run started (absent, or the older timestamp), and a run that reaches the
\* end of the library has requested every item it had to download.
C10_FetchFailureIsolated ==
    /\ \A id \in failed :
          /\ dl_idx > id
          /\ EntryOf(RunLedger, id) = EntryOf(runStartLedger[run], id)
          /\ EntryOf(Ledger, id) = EntryOf(runStartLedger[run], id)
    /\ (dl_pc = "done" =>
          \A id \in BookIds : Eligible(id, runStartLedger[run], now) => id \in fetched)

\* the request for an item with an older ledger entry failed, a later item
\* was downloaded and the run reached the end of the library
C10_Witness ==
    /\ variant = "process_library"
    /\ dl_pc = "done"
    /\ \E id \in failed :
          /\ id \in DOMAIN runStartLedger[run]
          /\ \E j \in (fetched \cap written) \ failed : j > id

(***************************************************************************)
(* The reconciliation of one run.                                          *)
(***************************************************************************)
InitRecon ==
    /\ IdleCredit
    /\ IdleClass
    /\ IdlePack
    /\ IdleSeries
    /\ IdleLoad
    /\ IdleMain
    /\ IdleBuy
    /\ IdleDl
    /\ IdleOrder
    /\ InitReconciliation

NextRecon == R_FetchSeries \/ R_GetUnowned \/ R_Unfollow

SpecRecon == InitRecon /\ [][NextRecon]_vars

\* the series whose volumes hold the item
SeriesOfItem(item) == {s \in Series : item \in Range(catalogue[s].volumes)}
\* the slugs whose details were fetched
Loaded == {series_info[k].slug : k \in 1 .. Len(series_info)}

\* C3: once get_unowned_books has run, an item is in its result if and only
\* if its series is followed, the series' details were fetched and the item
\* is not a key of the library.
C3_OrderableIff ==
    r_pc = "planned" =>
        \A item \in Items :
            item \in Range(unowned) <=>
                /\ \E s \in SeriesOfItem(item) :
                      /\ s \in DOMAIN series_follow_states
                      /\ series_follow_states[s] = TRUE
                      /\ s \in Loaded
                /\ item \notin owned

\* an unowned volume of a followed series is listed, an unowned volume of
\* another series is not
C3_Witness ==
    /\ r_pc = "planned"
    /\ unowned # <<>>
    /\ \E item \in Items \ owned : item \notin Range(unowned)

\* C4: of the fetched series tagged "fully translated", exactly those are
\* set to unfollowed whose every volume is in the download ledger or is a
\* current preorder.
C4_UnfollowIff ==
    r_pc = "done" =>
        \A k \in 1 .. Len(series_info) :
            FullyTranslated \in series_info[k].tags =>
                (series_info[k].slug \in unfollowed <=>
                    \A item \in Range(series_info[k].volumes) :
                        item \in downloaded_book_ids \/ item \in preorders)

(***************************************************************************)
(* The acquisition loop: handle_new_books of both variants.                *)
(***************************************************************************)
InitOrder ==
    /\ IdleCredit
    /\ IdleClass
    /\ IdlePack
    /\ IdleSeries
    /\ IdleLoad
    /\ opCount = 0
    /\ lastCall = [op |-> "none", amount |-> 0, exc |-> "none", before |-> 0, net |-> 0]
    /\ IdleDl
    /\ IdleRecon
    /\ IdleMain
    /\ InitHandleNewBooks

NextOrder ==
    \/ H_Loop
    \/ H_Buy
    \/ H_Check
    \/ H_Order
    \/ H_Info
    \/ HC_Loop
    \/ HC_Buy
    \/ HC_Check
    \/ HC_Order
    \/ HC_Info

SpecOrder == InitOrder /\ [][NextOrder]_vars

\* the balance handle_new_books spends from
Balance == IF h_variant = "credits" THEN premium_credits ELSE coins

\* a book after the current one that the balance could pay for
LaterAffordable ==
    \E j \in (h_idx + 1) .. Len(new_books) :
        new_books[j].price > 0 /\ new_books[j].price <= coins

C7_NothingRedeemed ==
    (/\ h_variant \in {"coins", "credits"}
     /\ balance0 = 0
     /\ ~opts.buy_coins
     /\ \A i \in 1 .. Len(new_books) : new_books[i].price > 0) =>
        /\ redeemed = <<>>
        /\ ordered_books = {}
        /\ purchases = <<>>
        /\ netCalls = 0
        /\ Balance = 0
        /\ h_pc \in {"loop", "buy", "check", "returned"}

\* the user confirmed a book and the call returned at the funds test
C7_Witness ==
    /\ h_variant = "coins"
    /\ balance0 = 0
    /\ ~opts.buy_coins
    /\ \A i \in 1 .. Len(new_books) : new_books[i].price > 0
    /\ h_pc = "returned"
    /\ hist.short # {}
    /\ hist.declined # {}

OtherFailure ==
    /\ h_variant = "coins"
    /\ hist.order = "500" \/ hist.info = "error"

C11_LedgerKeysKept ==
    (run > 0 /\ dl_pc = "done") =>
        DOMAIN runStartLedger[run] \subseteq DOMAIN Ledger

(***************************************************************************)
(* A run of the script jnc.py.                                             *)
(***************************************************************************)
InitMain ==
    /\ IdleCredit
    /\ IdleClass
    /\ IdlePack
    /\ IdleSeries
    /\ IdleLoad
    /\ IdleBuy
    /\ IdleDl
    /\ IdleRecon
    /\ IdleOrder
    /\ InitScriptRun

NextMain ==
    \/ M_Login
    \/ M_Setup
    \/ M_Follow
    \/ M_Order
    \/ M_Download

SpecMain == InitMain /\ [][NextMain]_vars

\* C12: when the login fails with an authentication error the run ends
\* before any state is changed: no ledger file is created or written, no
\* follow decision is recorded and no redeem, purchase or download request is
\* sent.
C12_LoginFailureChangesNothing ==
    (m_login \notin {"none", "ok"}) =>
        /\ m_pc = "exited"
        /\ m_exit = 1
        /\ m_created = {}
        /\ m_decided = {}
        /\ m_calls \subseteq {"login", "user"}

\* the login failed in a run that would have created both ledger files
C12_Witness ==
    /\ m_login = "JNCApiError"
    /\ m_calls = {"login"}
    /\ m_files = {}
    /\ m_pc = "exited"

(***************************************************************************)
(* Loading a legacy download ledger.                                       *)
(***************************************************************************)
InitLoad ==
    /\ IdleCredit
    /\ IdleClass
    /\ IdlePack
    /\ IdleSeries
    /\ IdleBuy
    /\ IdleDl
    /\ IdleRecon
    /\ IdleOrder
    /\ IdleMain
    /\ InitLoadLedger

NextLoad == L_Read \/ L_Infer

SpecLoad == InitLoad /\ [][NextLoad]_vars

C14_EmptySeriesKept ==
    r_pc = "done" =>
        \A k \in 1 .. Len(series_info) :
            (/\ FullyTranslated \in series_info[k].tags
             /\ series_info[k].volumes = <<>>) =>
                /\ series_info[k].slug \notin unfollowed
                /\ series_follow_states[series_info[k].slug] = TRUE

(***************************************************************************)
(* get_new_series over every library of up to MaxLibrary books.            *)
(***************************************************************************)
InitSeries ==
    /\ IdleCredit
    /\ IdleClass
    /\ IdlePack
    /\ IdleBuy
    /\ IdleDl
    /\ IdleRecon
    /\ IdleOrder
    /\ IdleMain
    /\ IdleLoad
    /\ InitGetNewSeries

NextSeries == G_Loop \/ G_Return

SpecSeries == InitSeries /\ [][NextSeries]_vars

\* C15: an owned item whose series slug is empty or absent (None) never
\* contributes an entry to the result of get_new_series.
C15_NoSlugNeverNew ==
    /\ "" \notin Range(g_result)
    /\ NoSlug \notin Range(g_result)

\* the slugs of q that S holds, each once, in the order of their first
\* occurrence in q
RECURSIVE FirstSeen(_, _)
FirstSeen(q, S) ==
    IF q = <<>> THEN <<>>
    ELSE IF Head(q) \in S
    THEN <<Head(q)>> \o FirstSeen(Tail(q), S \ {Head(q)})
    ELSE FirstSeen(Tail(q), S)

\* C16: get_new_series returns exactly the series referenced by at least one
\* library item and not a key of the follow ledger, each once, in the order
\* in which they are first seen when iterating the library.
C16_NewSeriesFirstSeen ==
    g_pc = "done" =>
        g_result = FirstSeen(g_library, (Range(g_library) \cap AllSlugs) \ g_known)

\* C17: in handle_new_books, when the balance is below the price of a
\* confirmed item and currency purchase is allowed with its confirmation
\* suppressed, a purchase is attempted before the insufficient-funds stop is
\* taken, also when the balance is positive but below the price.
C17_PurchaseBeforeStop ==
    (/\ h_variant = "coins"
     /\ opts.buy_coins
     /\ opts.no_confirm_coins
     /\ hist.short # {}) =>
        hist.attempt \in {"ok", "failed"}

(***************************************************************************)
(* nearest_pack over every pack table of up to MaxPacks packs.             *)
(***************************************************************************)
InitPack ==
    /\ IdleCredit
    /\ IdleClass
    /\ IdleBuy
    /\ IdleDl
    /\ IdleRecon
    /\ IdleOrder
    /\ IdleMain
    /\ IdleLoad
    /\ IdleSeries
    /\ InitNearestPack

NextPack == P_Loop \/ P_Last

SpecPack == InitPack /\ [][NextPack]_vars

\* the indexes of the packs whose coin count is strictly above the amount
Exceeding == {i \in 1 .. Len(p_packs) : p_packs[i].coins > p_amount}

\* the result is a smallest pack among those above the amount, and a largest
\* pack of the table when there is none
SmallestExceeding ==
    IF Exceeding # {}
    THEN /\ \E i \in Exceeding : p_result = p_packs[i]
         /\ \A i \in Exceeding : p_result.coins <= p_packs[i].coins
    ELSE /\ \E i \in 1 .. Len(p_packs) : p_result = p_packs[i]
         /\ \A i \in 1 .. Len(p_packs) : p_result.coins >= p_packs[i].coins

\* the table lists its packs by ascending coin count
AscendingTable ==
    \A i \in 1 .. Len(p_packs) : \A j \in 1 .. Len(p_packs) :
        i < j => p_packs[i].coins <= p_packs[j].coins

\* C18 (as stated): for every pack table and every amount nearest_pack
\* returns the pack with the smallest coin count among the packs strictly
\* above the amount, and the pack with the largest coin count when none is.
C18_SmallestExceedingPack ==
    p_pc = "done" => SmallestExceeding

\* C18 (amended): nearest_pack returns the first pack, in the order of the
\* table, whose coin count is strictly above the amount, and the last pack of
\* the table when none is; for a table in ascending order of coin count these
\* are the smallest pack above the amount and the largest pack.
C18_FirstExceedingPack ==
    p_pc = "done" =>
        /\ IF Exceeding # {}
           THEN \E i \in Exceeding :
                   /\ p_result = p_packs[i]
                   /\ \A j \in Exceeding : i <= j
           ELSE p_result = p_packs[Len(p_packs)]
        /\ AscendingTable => SmallestExceeding

\* an ascending table with a pack below the amount and two packs above it
C18_Witness ==
    /\ p_pc = "done"
    /\ AscendingTable
    /\ p_packs[1].coins <= p_amount
    /\ \E i \in Exceeding : \E j \in Exceeding : p_packs[i].coins < p_packs[j].coins
    /\ p_result.coins > p_amount

\* C19: when the purchase call of handle_new_books is rejected or fails, the
\* balance after the call equals the balance before the purchase step.
C19_FailedPurchaseKeepsBalance ==
    (h_variant \in {"coins", "credits"} /\ hist.attempt = "failed") =>
        Balance = hist.before

\* the run has passed book id
Processed(id) == dl_pc = "done" \/ id < dl_idx

\* book id is released with a download link and, against its entry in ledger
\* L, carries a strictly newer content-update timestamp
NewerThanLedger(id, L) ==
    /\ library[id].is_preorder = FALSE
    /\ library[id].publish_date <= now
    /\ library[id].download_link # NoLink
    /\ library[id].updated_date # NoneT
    /\ L[id] < library[id].updated_date

\* C20: process_library fetches an item that is already in the ledger if and
\* only if include_updated is true, the item is released with a download
\* link, and its content-update timestamp exists and is strictly newer than
\* the ledger timestamp; an equal or a missing update timestamp causes no
\* fetch.
C20_RefetchIffNewer ==
    (variant = "process_library" /\ run > 0) =>
        \A id \in BookIds \cap DOMAIN runStartLedger[run] :
            /\ id \in fetched =>
                  (include_updated /\ NewerThanLedger(id, runStartLedger[run]))
            /\ Processed(id) =>
                  ((include_updated /\ NewerThanLedger(id, runStartLedger[run]))
                      => id \in fetched)

\* in one run a ledger item with a newer update was fetched and a released
\* ledger item whose update timestamp equals its ledger timestamp was not
C20_Witness ==
    /\ variant = "process_library"
    /\ run > 0
    /\ dl_pc = "done"
    /\ include_updated
    /\ \E id \in fetched : id \in DOMAIN runStartLedger[run]
    /\ \E id \in BookIds \cap DOMAIN runStartLedger[run] :
          /\ id \notin fetched
          /\ library[id].is_preorder = FALSE
          /\ library[id].publish_date <= now
          /\ library[id].download_link # NoLink
          /\ library[id].updated_date = runStartLedger[run][id]

(***************************************************************************)
(* The classification of books as preorder or available within one run.    *)
(***************************************************************************)
InitClass ==
    /\ IdleCredit
    /\ IdleBuy
    /\ IdleDl
    /\ IdleRecon
    /\ IdleOrder
    /\ IdleMain
    /\ IdleLoad
    /\ IdleSeries
    /\ IdlePack
    /\ InitClassify

NextClass ==
    \/ K_Tick
    \/ K_PrintPreorders
    \/ K_PrintBooks
    \/ K_ProcessLibrary

SpecClass == InitClass /\ [][NextClass]_vars

\* C21: all preorder/availability decisions of one run use one value of
\* "now" and compare it with the release timestamp only, so no item is a
\* preorder for one step and available for another.
C21_OneNowOneClass ==
    /\ \A s \in DOMAIN k_now : \A t \in DOMAIN k_now : k_now[s] = k_now[t]
    /\ \A s \in DOMAIN k_class : \A t \in DOMAIN k_class :
          \A id \in BookIds : k_class[s][id] = k_class[t][id]

\* the step in which the user declines the current book
DeclineStep == hist'.declined # hist.declined

\* C22: in handle_new_books, when the user declines an item it is neither
\* paid for nor redeemed, now or later, the balance is unchanged by the step
\* and the loop continues with the next item.
C22_DeclinedItemSkipped ==
    /\ [](\A i \in hist.declined : i \notin Range(redeemed) \cup ordered_books)
    /\ [][DeclineStep =>
            /\ hist'.declined = hist.declined \cup {h_idx}
            /\ coins' = coins
            /\ premium_credits' = premium_credits
            /\ netCalls' = netCalls
            /\ purchases' = purchases
            /\ redeemed' = redeemed
            /\ ordered_books' = ordered_books
            /\ h_pc' = "loop"
            /\ h_idx' = h_idx + 1]_vars

\* a book was redeemed after an earlier book had been declined
C22_Witness ==
    /\ h_variant = "coins"
    /\ ~opts.no_confirm_order
    /\ \E i \in hist.declined : \E j \in Range(redeemed) : j > i

(***************************************************************************)
(* Any sequence of purchase and redeem calls on one account.               *)
(***************************************************************************)
\* JNClient.order_book (jnc_api_tools.py) for a book of a price of 0 or more
OrderBook ==
    /\ opCount < MaxOps
    /\ \E price \in {0} \cup Prices, resp \in OrderResponses :
          LET r == order_book(coins, price, resp) IN
          /\ coins' = r.balance
          /\ netCalls' = IF coins >= price THEN netCalls + 1 ELSE netCalls
          /\ lastCall' = [op |-> "order_book", amount |-> price, exc |-> r.exc,
                          before |-> coins, net |-> IF coins >= price THEN 1 ELSE 0]
    /\ opCount' = opCount + 1
    /\ UNCHANGED <<premium_credits, notBuy>>

\* JNClient.order_book (jnc_api.py): one credit
OrderBookCredits ==
    /\ opCount < MaxOps
    /\ \E resp \in OrderResponses :
          LET r == order_book_credits(premium_credits, resp) IN
          /\ premium_credits' = r.balance
          /\ netCalls' = IF premium_credits <= 0 THEN netCalls ELSE netCalls + 1
          /\ lastCall' = [op |-> "order_book_credits", amount |-> 1, exc |-> r.exc,
                          before |-> premium_credits,
                          net |-> IF premium_credits <= 0 THEN 0 ELSE 1]
    /\ opCount' = opCount + 1
    /\ UNCHANGED <<coins, notBuy>>

NextOps ==
    \/ BuyCoins
    \/ BuyCredits
    \/ OrderBook
    \/ OrderBookCredits

SpecOps == InitBuy /\ [][NextOps]_vars

\* C23: starting from a non-negative balance and with non-negative prices,
\* the balance is non-negative after any sequence of purchase and redeem
\* calls.
C23_BalanceNonNegative ==
    /\ coins >= 0
    /\ premium_credits >= 0


\* the sum of the numbers of a sequence
RECURSIVE SumSeq(_)
SumSeq(q) == IF q = <<>> THEN 0 ELSE Head(q) + SumSeq(Tail(q))

\* the sum of the prices of the books of S
RECURSIVE SumPrices(_)
SumPrices(S) ==
    IF S = {} THEN 0
    ELSE LET i == CHOOSE x \in S : TRUE
         IN  new_books[i].price + SumPrices(S \ {i})

\* C24: when handle_new_books returns, the balance is the initial balance
\* plus the amounts of the accepted purchases minus the prices of the items
\* of the returned map, and the map holds exactly the items whose redeem call
\* succeeded, each redeemed once.
C24_BalanceAccounts ==
    h_pc = "returned" =>
        /\ Balance = balance0 + SumSeq(purchases) - SumPrices(ordered_books)
        /\ ordered_books = Range(redeemed)
        /\ Cardinality(Range(redeemed)) = Len(redeemed)


(***************************************************************************)
(* The script's buy_credits.  The loop is sequential code: a step that can *)
(* be taken is taken.                                                      *)
(***************************************************************************)
InitCredit ==
    /\ IdleBuy
    /\ IdleDl
    /\ IdleRecon
    /\ IdleOrder
    /\ IdleMain
    /\ IdleLoad
    /\ IdleSeries
    /\ IdlePack
    /\ IdleClass
    /\ InitBuyCredits

NextCredit == C_Loop \/ C_Return

SpecCredit == InitCredit /\ [][NextCredit]_vars /\ WF_vars(NextCredit)

\* C25: buy_credits(n) terminates; every purchase is of 1 to 10 credits; when
\* every batch is confirmed and every purchase succeeds their sum is exactly
\* n, with no purchase at all for n of 0 or less; a declined batch ends the
\* loop with no further purchase.
C25_BuyCreditsBatches ==
    /\ [](/\ \A i \in 1 .. Len(c_batches) : c_batches[i] \in 1 .. BatchLimit
          /\ (c_pc = "done" /\ ~c_declined) =>
                SumSeq(c_batches) = (IF c_initial > 0 THEN c_initial ELSE 0)
          /\ c_initial <= 0 => c_batches = <<>>
          /\ c_declined => c_pc = "done")
    /\ [][c_declined' => c_batches' = c_batches]_vars
    /\ <>(c_pc \in {"done", "raised"})

\* 21 credits were bought in batches of 10, 10 and 1
C25_Witness ==
    /\ c_pc = "done"
    /\ ~c_declined
    /\ c_batches = <<BatchLimit, BatchLimit, 1>>

====
